---- MODULE Spec2Model ----
(***************************************************************************)
(* The two pipeline controllers of phoenix2ax:                             *)
(*   export_all_projects.py  main()   (tool = "export")                    *)
(*   import_to_arize.py      main() and its stage wrappers (tool="import") *)
(* One run of one tool is one behaviour.  The per-entity exporters and     *)
(* importers, the argument parser and the operator at the terminal are the *)
(* environment: what they return, raise or answer is chosen with \E.       *)
(***************************************************************************)
EXTENDS Integers, Sequences, FiniteSets, TLC

VARIABLES
    tool,        \* which script runs: "export" or "import"
    argv,        \* the command line as parsed, never changed (history)
    args,        \* the argparse Namespace main() reads and (import) rewrites
    pc,          \* the position of main(): the step it is at
    inCall,      \* TRUE while main() is inside an exporter/importer/setup call
    successful,  \* successful_exports / successful_imports
    failed,      \* failed_exports / failed_imports
    log,         \* the set of logger.error / logger.warning messages emitted
    events,      \* the calls, returns, prompts and summary of the run, in order
    trace_file,  \* results/trace_import_results.json
    exit_code,   \* the process exit status (-1 while the process runs)
    given        \* one stage on its own: what its callee is about to produce

vars == <<tool, argv, args, pc, inCall, successful, failed, log, events,
          trace_file, exit_code, given>>

----------------------------------------------------------------------------
(* Bounds *)

\* the largest number of entities (datasets, prompts, projects) in one result
\* of an exporter or of a list- or projects-shaped importer
MaxEntities == 2

\* the largest number of selection flags on one command line (no condition of
\* either main() reads more than three of them)
MaxFlags == 3

\* the largest number of projects in a result of the traces importer, where
\* the traces wrapper is checked on its own
MaxProjects == 2

----------------------------------------------------------------------------
(* Small helpers *)

Range(s) == {s[i] : i \in 1..Len(s)}

SeqsUpTo(S, n) == UNION {[1..k -> S] : k \in 0..n}

\* Python's sum(cond(d) for d in result) over a list of per-entity dicts
RECURSIVE CountIn(_, _)
CountIn(s, S) ==
    IF s = <<>> THEN 0
    ELSE (IF Head(s) \in S THEN 1 ELSE 0) + CountIn(Tail(s), S)

----------------------------------------------------------------------------
(* The command line *)

FlagNames == {"all", "datasets", "prompts", "traces", "annotations",
              "evaluations", "projects", "setup_annotations"}

\* parse_export_args(): --projects exists, --setup-annotations does not;
\* base_url comes from --base-url or PHOENIX_ENDPOINT and may be empty.
ExportArgvs ==
    {a \in [all : BOOLEAN, datasets : BOOLEAN, prompts : BOOLEAN, traces : BOOLEAN,
            annotations : BOOLEAN, evaluations : BOOLEAN, projects : BOOLEAN,
            setup_annotations : {FALSE},
            base_url : BOOLEAN, api_key : {TRUE}, space_id : {TRUE}] :
        Cardinality({f \in FlagNames : a[f]}) <= MaxFlags}

\* parse_import_args(): --setup-annotations exists, --projects does not;
\* api_key and space_id come from the flags or the environment and may be empty.
ImportArgvs ==
    {a \in [all : BOOLEAN, datasets : BOOLEAN, prompts : BOOLEAN, traces : BOOLEAN,
            annotations : BOOLEAN, evaluations : BOOLEAN, projects : {FALSE},
            setup_annotations : BOOLEAN,
            base_url : {TRUE}, api_key : BOOLEAN, space_id : BOOLEAN] :
        Cardinality({f \in FlagNames : a[f]}) <= MaxFlags}

----------------------------------------------------------------------------
(* Results of the external exporters and importers *)

\* a per-entity status dict is modelled by the value of its "status" key;
\* "" is a dict without one
ExportStatuses == {"exported", "failed", ""}
ImportStatuses == {"imported", "already_exists", "failed"}

NoneResult == [kind |-> "none", list |-> <<>>, dict |-> {}]
ListResult(l) == [kind |-> "list", list |-> l, dict |-> {}]
DictResult(d) == [kind |-> "dict", list |-> <<>>, dict |-> d]

\* export_datasets / export_prompts return a list, export_traces /
\* export_annotations / export_evaluations a dict keyed by project name; the
\* controller reads only the values, so both are modelled by the list of values.
ExportResults ==
    {NoneResult} \cup {ListResult(l) : l \in SeqsUpTo(ExportStatuses, MaxEntities)}

\* import_datasets / import_prompts: a list of per-entity dicts, or no list
ListImportResults ==
    {NoneResult, DictResult({<<"p1", "imported">>})}
        \cup {ListResult(l) : l \in SeqsUpTo(ImportStatuses, MaxEntities)}

\* import_traces: None or a dict.  A dict is a set of <<key, value>> pairs with
\* distinct keys; a value is the status of a dict-shaped entry, or NotADict.
NotADict == "<not a dict>"

\* the results the traces importer returns in a run of the whole pipeline: one
\* of each kind the controller tells apart
TraceImportResults ==
    {NoneResult, DictResult({}), DictResult({<<"p1", "imported">>}),
     DictResult({<<"p1", "failed">>})}

\* every result of the traces importer with up to MaxProjects projects: None,
\* a list (not a dict), or a dict over the project names and the special keys
ProjectNames == <<"p1", "p2", "p3">>
TraceProjects == {ProjectNames[i] : i \in 1..MaxProjects}
TraceKeys == {"projects", "timestamp"} \cup TraceProjects
TraceValues(k) ==
    IF k \in TraceProjects THEN {"imported", "skipped", "failed", NotADict}
    ELSE IF k = "projects" THEN {"imported", NotADict}
    ELSE {NotADict}
TraceDicts ==
    UNION {{ {<<k, f[k]>> : k \in K} :
                f \in {g \in [K -> {"imported", "skipped", "failed", NotADict}] :
                          \A k \in K : g[k] \in TraceValues(k)} } :
           K \in SUBSET TraceKeys}
AllTraceImportResults ==
    {NoneResult, ListResult(<<"imported">>)} \cup {DictResult(d) : d \in TraceDicts}

\* import_annotations / import_evaluations: None, or a dict; with a "projects"
\* key its value maps project names to dicts whose "success" is read.  The
\* list holds the "success" values of result["projects"].
ProjectsImportResults ==
    {NoneResult, DictResult({}), DictResult({<<"timestamp", NotADict>>})}
        \cup {[kind |-> "dict", list |-> l, dict |-> {<<"projects", "projects">>}] :
                 l \in SeqsUpTo(BOOLEAN, MaxEntities)}

\* results/trace_import_results.json: absent, not loadable as JSON, or JSON
AbsentFile == [state |-> "absent", content |-> NoneResult]
CorruptFile == [state |-> "corrupt", content |-> NoneResult]
JsonFile(r) == [state |-> "json", content |-> r]
TraceFiles ==
    {AbsentFile, CorruptFile} \cup {JsonFile(r) : r \in TraceImportResults \ {NoneResult}}
AllTraceFiles ==
    {AbsentFile, CorruptFile} \cup {JsonFile(r) : r \in AllTraceImportResults}

\* what a callee produces: it raises or returns a result, and (traces) leaves
\* the results file in some state
Given(raised, result, file) == [raised |-> raised, result |-> result, file |-> file]
NoGiven == Given(FALSE, NoneResult, AbsentFile)

----------------------------------------------------------------------------
(* Logging, the event history and the confirmation prompts *)

LogMsg(level, what, stage) == <<level, what, stage>>

Call(s) == <<"call", s>>
Return(s) == <<"return", s>>
Raise(s) == <<"raise", s>>
Summary == <<"summary", "">>
IngestionPrompt(c) == <<"ingestion prompt", c>>
AnnotationPrompt(c) == <<"annotation prompt", c>>

\* what the operator may type at an input() prompt
Answers == {"YES", "y", "no"}

\* str.lower() on the answers
Lower(a) ==
    CASE a = "Y" -> "y"
      [] a = "YES" -> "yes"
      [] a = "N" -> "n"
      [] OTHER -> a

\* mutant of IsYes: every answer counts as a confirmation
IsYesAnyAnswer(confirmation) == confirmation \in {"yes", "y", "no", "n", ""}

\* confirmation in ["yes", "y"]
IsYes(confirmation) == confirmation \in {"yes", "y"}

----------------------------------------------------------------------------
(* export_all_projects.py *)

ExportStages == <<"datasets", "prompts", "traces", "annotations", "evaluations">>

\* the condition of each stage's if
ExportRequested(a, s) ==
    CASE s = "datasets" -> a.all \/ a.datasets
      [] s = "prompts" -> a.all \/ a.prompts
      [] s = "traces" -> a.all \/ a.traces \/ a.projects
      [] s = "annotations" -> a.all \/ a.annotations
      [] s = "evaluations" -> a.all \/ a.evaluations

\* "Check if any export type is selected"
ExportAnySelected(a) ==
    a.all \/ a.datasets \/ a.prompts \/ a.projects \/ a.traces
        \/ a.annotations \/ a.evaluations

\* mutant of ExportNext: the prompts and traces blocks change places
ExportNextSwapped(s) ==
    CASE s = "datasets" -> "traces"
      [] s = "traces" -> "prompts"
      [] s = "prompts" -> "annotations"
      [] s = "annotations" -> "evaluations"
      [] s = "evaluations" -> "summary"

\* the step that follows a stage's if block
ExportNext(s) ==
    CASE s = "datasets" -> "prompts"
      [] s = "prompts" -> "traces"
      [] s = "traces" -> "annotations"
      [] s = "annotations" -> "evaluations"
      [] s = "evaluations" -> "summary"

\* mutant of ExportStageSucceeded: a stage succeeds only with an exported entity
ExportStageNeedsExported(result) ==
    result.kind = "list" /\ \E i \in 1..Len(result.list) : result.list[i] = "exported"

\* "if results:" inside a stage's try block
ExportStageSucceeded(result) ==
    result.kind = "list" /\ Len(result.list) > 0

\* mutant of ExitCode: the final sys.exit(1) is missing
ExitCodeAlwaysZero(failedList) == 0

\* sys.exit(1) if failed_exports / failed_imports, else the script ends
ExitCode(failedList) == IF Len(failedList) > 0 THEN 1 ELSE 0

\* args = parse_export_args(); if not args.base_url: error, return
ExportNoEndpoint ==
    /\ tool = "export" /\ pc = "check_args"
    /\ ~args.base_url
    /\ log' = log \cup {LogMsg("error", "no endpoint", "")}
    /\ pc' = "done"
    /\ exit_code' = 0
    /\ UNCHANGED <<given, tool, argv, args, inCall, successful, failed, events, trace_file>>

\* the client is built, then: no export type selected: error, return
ExportNothingSelected ==
    /\ tool = "export" /\ pc = "check_args"
    /\ args.base_url
    /\ ~ExportAnySelected(args)
    /\ log' = log \cup {LogMsg("error", "no type selected", "")}
    /\ pc' = "done"
    /\ exit_code' = 0
    /\ UNCHANGED <<given, tool, argv, args, inCall, successful, failed, events, trace_file>>

\* the checks pass: the projects directory is made and step 1 is next
ExportBegin ==
    /\ tool = "export" /\ pc = "check_args"
    /\ args.base_url
    /\ ExportAnySelected(args)
    /\ pc' = "datasets"
    /\ UNCHANGED <<given, tool, argv, args, inCall, successful, failed, log, events,
                   trace_file, exit_code>>

\* a stage's if is false
ExportSkip(s) ==
    /\ tool = "export" /\ pc = s /\ ~inCall
    /\ ~ExportRequested(args, s)
    /\ pc' = ExportNext(s)
    /\ UNCHANGED <<given, tool, argv, args, inCall, successful, failed, log, events,
                   trace_file, exit_code>>

\* a stage's if is true: the exporter is called
ExportCall(s) ==
    /\ tool = "export" /\ pc = s /\ ~inCall
    /\ ExportRequested(args, s)
    /\ inCall' = TRUE
    /\ events' = Append(events, Call(s))
    /\ UNCHANGED <<given, tool, argv, args, pc, successful, failed, log, trace_file, exit_code>>

\* the exporter returns result
ExportReturnWith(s, result) ==
    /\ tool = "export" /\ pc = s /\ inCall
    /\ IF ExportStageSucceeded(result)
       THEN /\ successful' = Append(successful, s)
            /\ UNCHANGED <<failed, log>>
       ELSE /\ failed' = Append(failed, s)
            /\ log' = log \cup {LogMsg("error", "empty result", s)}
            /\ UNCHANGED successful
    /\ events' = Append(events, Return(s))
    /\ inCall' = FALSE
    /\ pc' = ExportNext(s)
    /\ UNCHANGED <<given, tool, argv, args, trace_file, exit_code>>

\* the exporter returns a result
ExportReturn(s) == \E result \in ExportResults : ExportReturnWith(s, result)

\* mutant of ExportOnRaise: the except clause records the stage twice
ExportOnRaiseTwice(failedList, s) == Append(Append(failedList, s), s)

\* mutant of ExportOnRaise: the except clause logs but records nothing
ExportOnRaiseUnrecorded(failedList, s) == failedList

\* the stage's except clause: the name the stage records when its exporter raises
ExportOnRaise(failedList, s) == Append(failedList, s)

\* the exporter raises: except Exception
ExportRaise(s) ==
    /\ tool = "export" /\ pc = s /\ inCall
    /\ failed' = ExportOnRaise(failed, s)
    /\ log' = log \cup {LogMsg("error", "raised", s)}
    /\ events' = Append(events, Raise(s))
    /\ inCall' = FALSE
    /\ pc' = ExportNext(s)
    /\ UNCHANGED <<given, tool, argv, args, successful, trace_file, exit_code>>

\* "Print summary" to the end of main()
ExportSummary ==
    /\ tool = "export" /\ pc = "summary"
    /\ events' = Append(events, Summary)
    /\ log' = log \cup (IF Len(failed) > 0 THEN {LogMsg("error", "failed summary", "")} ELSE {})
    /\ exit_code' = ExitCode(failed)
    /\ pc' = "done"
    /\ UNCHANGED <<given, tool, argv, args, inCall, successful, failed, trace_file>>

----------------------------------------------------------------------------
(* import_to_arize.py: the stage wrappers *)

\* mutant of ListWrapperSucceeded: only newly imported entities count
ListWrapperOnlyNew(result) ==
    /\ result.kind = "list"
    /\ Len(result.list) > 0
    /\ CountIn(result.list, {"imported"}) > 0

\* import_datasets_wrapper / import_prompts_wrapper on a returned result:
\* a non-empty list with (new_count + existing_count) > 0
ListWrapperSucceeded(result) ==
    /\ result.kind = "list"
    /\ Len(result.list) > 0
    /\ CountIn(result.list, {"imported"}) + CountIn(result.list, {"already_exists"}) > 0

\* import_annotations_wrapper / import_evaluations_wrapper on a returned result:
\* a dict with a "projects" key and total_success > 0
ProjectsWrapperSucceeded(result) ==
    /\ result.kind = "dict"
    /\ \E e \in result.dict : e[1] = "projects"
    /\ CountIn(result.list, {TRUE}) > 0

\* import_traces_wrapper: "if result and isinstance(result, dict) and len(result) > 0"
TraceResultUsable(result) ==
    result.kind = "dict" /\ result.dict # {}

\* mutant of TraceSuccessCount: the special keys are counted too
TraceSuccessCountAllKeys(result) ==
    Cardinality({e \in result.dict : e[2] # NotADict /\ e[2] \in {"imported", "skipped"}})

\* import_traces_wrapper: success_count, the entries outside the special keys
\* that are dicts with status "imported" or "skipped"
TraceSuccessCount(result) ==
    Cardinality({e \in result.dict :
                    /\ e[1] \notin {"projects", "timestamp"}
                    /\ e[2] # NotADict
                    /\ e[2] \in {"imported", "skipped"}})

\* import_traces_wrapper: the value returned for a result in hand
TraceWrapperSucceeded(result) ==
    TraceResultUsable(result) /\ TraceSuccessCount(result) > 0

\* import_traces_wrapper: the results file after the wrapper, for a result in hand
TraceFileAfter(result, file) ==
    IF TraceResultUsable(result) THEN JsonFile(result) ELSE file

\* mutant of TraceRecovered: the results file is never read back
TraceNeverRecovered(file) == FALSE

\* import_traces_wrapper, except import_error: whether a result is recovered
\* from the results file
TraceRecovered(file) == file.state = "json"

\* the wrapper of each stage applied to the importer's return value
WrapperSucceeded(s, result) ==
    CASE s \in {"datasets", "prompts"} -> ListWrapperSucceeded(result)
      [] s \in {"evaluations", "annotations"} -> ProjectsWrapperSucceeded(result)
      [] s = "traces" -> TraceWrapperSucceeded(result)

ImporterResults(s) ==
    CASE s \in {"datasets", "prompts"} -> ListImportResults
      [] s \in {"evaluations", "annotations"} -> ProjectsImportResults
      [] s = "traces" -> TraceImportResults

----------------------------------------------------------------------------
(* import_to_arize.py: main() *)

ImportStages == <<"datasets", "prompts", "traces", "evaluations",
                  "annotation setup", "annotations">>

\* mutant of ImportRequested: --traces also selects the evaluations stage
ImportRequestedTracesPullEvaluations(a, s) ==
    CASE s = "datasets" -> a.all \/ a.datasets
      [] s = "prompts" -> a.all \/ a.prompts
      [] s = "traces" -> a.all \/ a.traces
      [] s = "evaluations" -> a.all \/ a.evaluations \/ a.traces
      [] s = "annotations" -> a.all \/ a.annotations

\* the condition of each stage's if
ImportRequested(a, s) ==
    CASE s = "datasets" -> a.all \/ a.datasets
      [] s = "prompts" -> a.all \/ a.prompts
      [] s = "traces" -> a.all \/ a.traces
      [] s = "evaluations" -> a.all \/ a.evaluations
      [] s = "annotations" -> a.all \/ a.annotations

\* "Check if any import type is selected"
ImportAnySelected(a) ==
    a.all \/ a.datasets \/ a.traces \/ a.annotations \/ a.evaluations
        \/ a.prompts \/ a.setup_annotations

\* mutant of ImportNext: after the prompts stage main() starts over
ImportNextStartsOver(p) ==
    CASE p = "datasets" -> "prompts"
      [] p = "prompts" -> "datasets"
      [] p = "traces" -> "pause"
      [] p = "pause" -> "evaluations"
      [] p = "evaluations" -> "annotation setup"
      [] p = "annotation setup" -> "confirm"
      [] p = "confirm" -> "annotations"
      [] p = "annotations" -> "summary"

\* the step that follows each step of main()
ImportNext(p) ==
    CASE p = "datasets" -> "prompts"
      [] p = "prompts" -> "traces"
      [] p = "traces" -> "pause"
      [] p = "pause" -> "evaluations"
      [] p = "evaluations" -> "annotation setup"
      [] p = "annotation setup" -> "confirm"
      [] p = "confirm" -> "annotations"
      [] p = "annotations" -> "summary"

\* mutant of DeclineArgs: only args.evaluations is cleared
DeclineArgsKeepAll(a) == [a EXCEPT !.evaluations = FALSE]

\* the operator declined the ingestion prompt: "Remove evaluations from the
\* request to skip it"
DeclineArgs(a) == [a EXCEPT !.evaluations = FALSE, !.all = FALSE]

\* if not args.api_key: error, return
ImportNoApiKey ==
    /\ tool = "import" /\ pc = "check_args"
    /\ ~args.api_key
    /\ log' = log \cup {LogMsg("error", "no api key", "")}
    /\ pc' = "done"
    /\ exit_code' = 0
    /\ UNCHANGED <<given, tool, argv, args, inCall, successful, failed, events, trace_file>>

\* if not args.space_id: error, return
ImportNoSpaceId ==
    /\ tool = "import" /\ pc = "check_args"
    /\ args.api_key /\ ~args.space_id
    /\ log' = log \cup {LogMsg("error", "no space id", "")}
    /\ pc' = "done"
    /\ exit_code' = 0
    /\ UNCHANGED <<given, tool, argv, args, inCall, successful, failed, events, trace_file>>

\* no import type selected: error, return
ImportNothingSelected ==
    /\ tool = "import" /\ pc = "check_args"
    /\ args.api_key /\ args.space_id
    /\ ~ImportAnySelected(args)
    /\ log' = log \cup {LogMsg("error", "no type selected", "")}
    /\ pc' = "done"
    /\ exit_code' = 0
    /\ UNCHANGED <<given, tool, argv, args, inCall, successful, failed, events, trace_file>>

\* the checks pass: the two lists are created and step 1 is next
ImportBegin ==
    /\ tool = "import" /\ pc = "check_args"
    /\ args.api_key /\ args.space_id
    /\ ImportAnySelected(args)
    /\ pc' = "datasets"
    /\ UNCHANGED <<given, tool, argv, args, inCall, successful, failed, log, events,
                   trace_file, exit_code>>

\* steps 1-4: the stage's if is false
ImportSkip(s) ==
    /\ tool = "import" /\ pc = s /\ ~inCall
    /\ ~ImportRequested(args, s)
    /\ pc' = ImportNext(s)
    /\ UNCHANGED <<given, tool, argv, args, inCall, successful, failed, log, events,
                   trace_file, exit_code>>

\* steps 1-4: the stage's if is true, the wrapper calls the importer
ImportCall(s) ==
    /\ tool = "import" /\ pc = s /\ ~inCall
    /\ ImportRequested(args, s)
    /\ inCall' = TRUE
    /\ events' = Append(events, Call(s))
    /\ UNCHANGED <<given, tool, argv, args, pc, successful, failed, log, trace_file, exit_code>>

\* datasets, prompts, evaluations, annotations: the importer returns, the
\* wrapper turns the result into a boolean and main() records the stage
ImportReturnWith(s, result) ==
    /\ tool = "import" /\ pc = s /\ inCall
    /\ IF WrapperSucceeded(s, result)
       THEN /\ successful' = Append(successful, s)
            /\ UNCHANGED <<failed, log>>
       ELSE /\ failed' = Append(failed, s)
            /\ log' = log \cup {LogMsg("error", "nothing imported", s)}
            /\ UNCHANGED successful
    /\ events' = Append(events, Return(s))
    /\ inCall' = FALSE
    /\ pc' = ImportNext(s)
    /\ UNCHANGED <<given, tool, argv, args, trace_file, exit_code>>

\* datasets, prompts, evaluations, annotations: the importer returns a result
ImportReturn(s) == \E result \in ImporterResults(s) : ImportReturnWith(s, result)

\* mutant of ImportOnRaise: the failure of the wrapper is not recorded
ImportOnRaiseUnrecorded(failedList, s) == failedList

\* a wrapper's except clause returns False: what main() then records
ImportOnRaise(failedList, s) == Append(failedList, s)

\* datasets, prompts, evaluations, annotations: the importer raises
ImportRaise(s) ==
    /\ tool = "import" /\ pc = s /\ inCall
    /\ failed' = ImportOnRaise(failed, s)
    /\ log' = log \cup {LogMsg("error", "raised", s)}
    /\ events' = Append(events, Raise(s))
    /\ inCall' = FALSE
    /\ pc' = ImportNext(s)
    /\ UNCHANGED <<given, tool, argv, args, successful, trace_file, exit_code>>

\* the rest of import_traces_wrapper and of step 3, once a result is in hand
TracesRecord(result, file, extraLog) ==
    /\ trace_file' = TraceFileAfter(result, file)
    /\ IF TraceWrapperSucceeded(result)
       THEN /\ successful' = Append(successful, "traces")
            /\ log' = log \cup extraLog
            /\ UNCHANGED failed
       ELSE /\ failed' = Append(failed, "traces")
            /\ log' = log \cup extraLog \cup
                        (IF TraceResultUsable(result) THEN {}
                         ELSE {LogMsg("error", "nothing imported", "traces")})
            /\ UNCHANGED successful

\* traces: the importer returns result
ImportTracesReturnWith(result) ==
    /\ tool = "import" /\ pc = "traces" /\ inCall
    /\ TracesRecord(result, trace_file, {})
    /\ events' = Append(events, Return("traces"))
    /\ inCall' = FALSE
    /\ pc' = ImportNext("traces")
    /\ UNCHANGED <<given, tool, argv, args, exit_code>>

\* traces: the importer raises; the results file is whatever the importer (or
\* an earlier run) left there
ImportTracesRaiseWith(file) ==
    /\ tool = "import" /\ pc = "traces" /\ inCall
    /\ IF TraceRecovered(file)
       THEN TracesRecord(file.content, file, {LogMsg("error", "raised", "traces")})
       ELSE /\ trace_file' = file
            /\ failed' = Append(failed, "traces")
            /\ log' = log \cup {LogMsg("error", "raised", "traces")}
                          \cup (IF file.state = "corrupt"
                                THEN {LogMsg("error", "load failed", "traces")} ELSE {})
            /\ UNCHANGED successful
    /\ events' = Append(events, Raise("traces"))
    /\ inCall' = FALSE
    /\ pc' = ImportNext("traces")
    /\ UNCHANGED <<given, tool, argv, args, exit_code>>

\* mutant of IngestionPromptDue: traces_imported is not looked at
IngestionPromptDueWithoutTraces(a, successfulList) == a.all \/ a.evaluations

\* step 3.5: "if traces_imported and evaluations_requested"
IngestionPromptDue(a, successfulList) ==
    "traces" \in Range(successfulList) /\ (a.all \/ a.evaluations)

\* mutant of ImportNoPause: without a prompt the evaluations are dropped as on
\* a decline
ImportNoPauseDropsEvaluations ==
    /\ tool = "import" /\ pc = "pause"
    /\ ~("traces" \in Range(successful) /\ (args.all \/ args.evaluations))
    /\ args' = DeclineArgs(args)
    /\ pc' = ImportNext("pause")
    /\ UNCHANGED <<given, tool, argv, inCall, successful, failed, log, events,
                   trace_file, exit_code>>

\* step 3.5, no prompt
ImportNoPause ==
    /\ tool = "import" /\ pc = "pause"
    /\ ~IngestionPromptDue(args, successful)
    /\ pc' = ImportNext("pause")
    /\ UNCHANGED <<given, tool, argv, args, inCall, successful, failed, log, events,
                   trace_file, exit_code>>

\* step 3.5: the prompt, the operator's answer, and what a decline does
ImportPause ==
    /\ tool = "import" /\ pc = "pause"
    /\ IngestionPromptDue(args, successful)
    /\ \E answer \in Answers :
        LET confirmation == Lower(answer) IN
        /\ events' = Append(events, IngestionPrompt(confirmation))
        /\ IF ~IsYes(confirmation)
           THEN /\ log' = log \cup {LogMsg("warning", "import skipped", "evaluations")}
                /\ args' = DeclineArgs(args)
           ELSE UNCHANGED <<log, args>>
    /\ pc' = ImportNext("pause")
    /\ UNCHANGED <<given, tool, argv, inCall, successful, failed, trace_file, exit_code>>

\* steps 5-7, "if args.all or args.annotations": the setup guide is called
ImportSetupCall ==
    /\ tool = "import" /\ pc = "annotation setup" /\ ~inCall
    /\ ImportRequested(args, "annotations")
    /\ inCall' = TRUE
    /\ events' = Append(events, Call("annotation setup"))
    /\ UNCHANGED <<given, tool, argv, args, pc, successful, failed, log, trace_file, exit_code>>

\* setup_annotations_wrapper returns True: only logged
ImportSetupReturn ==
    /\ tool = "import" /\ pc = "annotation setup" /\ inCall
    /\ events' = Append(events, Return("annotation setup"))
    /\ inCall' = FALSE
    /\ pc' = ImportNext("annotation setup")
    /\ UNCHANGED <<given, tool, argv, args, successful, failed, log, trace_file, exit_code>>

\* setup_annotations.main() raises: the wrapper returns False, the stage goes on
ImportSetupRaise ==
    /\ tool = "import" /\ pc = "annotation setup" /\ inCall
    /\ failed' = Append(failed, "annotation setup")
    /\ log' = log \cup {LogMsg("error", "raised", "annotation setup")}
    /\ events' = Append(events, Raise("annotation setup"))
    /\ inCall' = FALSE
    /\ pc' = ImportNext("annotation setup")
    /\ UNCHANGED <<given, tool, argv, args, successful, trace_file, exit_code>>

\* step 6: the prompt and the operator's answer; step 7 follows on yes / y
ImportConfirm ==
    /\ tool = "import" /\ pc = "confirm"
    /\ \E answer \in Answers :
        LET confirmation == Lower(answer) IN
        /\ events' = Append(events, AnnotationPrompt(confirmation))
        /\ IF IsYes(confirmation)
           THEN /\ pc' = ImportNext("confirm")
                /\ UNCHANGED log
           ELSE /\ pc' = "summary"
                /\ log' = log \cup {LogMsg("warning", "import skipped", "annotations")}
    /\ UNCHANGED <<given, tool, argv, args, inCall, successful, failed, trace_file, exit_code>>

\* step 7: import_annotations_wrapper is called
ImportAnnotationsCall ==
    /\ tool = "import" /\ pc = "annotations" /\ ~inCall
    /\ inCall' = TRUE
    /\ events' = Append(events, Call("annotations"))
    /\ UNCHANGED <<given, tool, argv, args, pc, successful, failed, log, trace_file, exit_code>>

\* "elif args.setup_annotations": only the setup guide is called
ImportSetupOnlyCall ==
    /\ tool = "import" /\ pc = "annotation setup" /\ ~inCall
    /\ ~ImportRequested(args, "annotations")
    /\ args.setup_annotations
    /\ inCall' = TRUE
    /\ pc' = "setup only"
    /\ events' = Append(events, Call("annotation setup"))
    /\ UNCHANGED <<given, tool, argv, args, successful, failed, log, trace_file, exit_code>>

\* "elif args.setup_annotations": the guide is recorded like a stage
ImportSetupOnlyDone ==
    /\ tool = "import" /\ pc = "setup only" /\ inCall
    /\ \/ /\ successful' = Append(successful, "annotation setup")
          /\ events' = Append(events, Return("annotation setup"))
          /\ UNCHANGED <<failed, log>>
       \/ /\ failed' = Append(failed, "annotation setup")
          /\ log' = log \cup {LogMsg("error", "raised", "annotation setup")}
          /\ events' = Append(events, Raise("annotation setup"))
          /\ UNCHANGED successful
    /\ inCall' = FALSE
    /\ pc' = "summary"
    /\ UNCHANGED <<given, tool, argv, args, trace_file, exit_code>>

\* neither the if nor the elif of steps 5-7 holds
ImportNoAnnotations ==
    /\ tool = "import" /\ pc = "annotation setup" /\ ~inCall
    /\ ~ImportRequested(args, "annotations")
    /\ ~args.setup_annotations
    /\ pc' = "summary"
    /\ UNCHANGED <<given, tool, argv, args, inCall, successful, failed, log, events,
                   trace_file, exit_code>>

\* "Print summary" to the end of main()
ImportSummary ==
    /\ tool = "import" /\ pc = "summary"
    /\ events' = Append(events, Summary)
    /\ log' = log \cup (IF Len(failed) > 0 THEN {LogMsg("error", "failed summary", "")} ELSE {})
    /\ exit_code' = ExitCode(failed)
    /\ pc' = "done"
    /\ UNCHANGED <<given, tool, argv, args, inCall, successful, failed, trace_file>>

\* traces: the importer returns a result
ImportTracesReturn == \E result \in TraceImportResults : ImportTracesReturnWith(result)

\* traces: the importer raises, the results file in any of its states
ImportTracesRaise == \E file \in TraceFiles : ImportTracesRaiseWith(file)

----------------------------------------------------------------------------
(* The specification *)

Init ==
    /\ tool \in {"export", "import"}
    /\ argv \in (IF tool = "export" THEN ExportArgvs ELSE ImportArgvs)
    /\ args = argv
    /\ pc = "check_args"
    /\ inCall = FALSE
    /\ successful = <<>>
    /\ failed = <<>>
    /\ log = {}
    /\ events = <<>>
    /\ trace_file = AbsentFile
    /\ exit_code = -1
    /\ given = NoGiven

Next ==
    \/ ExportNoEndpoint
    \/ ExportNothingSelected
    \/ ExportBegin
    \/ \E s \in Range(ExportStages) : ExportSkip(s)
    \/ \E s \in Range(ExportStages) : ExportCall(s)
    \/ \E s \in Range(ExportStages) : ExportReturn(s)
    \/ \E s \in Range(ExportStages) : ExportRaise(s)
    \/ ExportSummary
    \/ ImportNoApiKey
    \/ ImportNoSpaceId
    \/ ImportNothingSelected
    \/ ImportBegin
    \/ \E s \in {"datasets", "prompts", "traces", "evaluations"} : ImportSkip(s)
    \/ \E s \in {"datasets", "prompts", "traces", "evaluations"} : ImportCall(s)
    \/ \E s \in {"datasets", "prompts", "evaluations", "annotations"} : ImportReturn(s)
    \/ \E s \in {"datasets", "prompts", "evaluations", "annotations"} : ImportRaise(s)
    \/ ImportTracesReturn
    \/ ImportTracesRaise
    \/ ImportNoPause
    \/ ImportPause
    \/ ImportSetupCall
    \/ ImportSetupReturn
    \/ ImportSetupRaise
    \/ ImportConfirm
    \/ ImportAnnotationsCall
    \/ ImportSetupOnlyCall
    \/ ImportSetupOnlyDone
    \/ ImportNoAnnotations
    \/ ImportSummary

Spec == Init /\ [][Next]_vars

----------------------------------------------------------------------------
(* One stage on its own: from the moment its exporter or importer is about to
   return or raise to the record in the two lists.  What the callee produces
   is drawn once, in given, from every result up to the bounds. *)

ImporterStages == {"datasets", "prompts", "traces", "evaluations", "annotations"}

Givens(t, s) ==
    IF t = "export"
    THEN {Given(TRUE, NoneResult, AbsentFile)}
            \cup {Given(FALSE, r, AbsentFile) : r \in ExportResults}
    ELSE IF s = "traces"
    THEN {Given(TRUE, NoneResult, f) : f \in AllTraceFiles}
            \cup {Given(FALSE, r, f) : r \in AllTraceImportResults,
                                      f \in {AbsentFile, CorruptFile,
                                             JsonFile(DictResult({<<"p1", "imported">>}))}}
    ELSE {Given(TRUE, NoneResult, AbsentFile)}
            \cup {Given(FALSE, r, AbsentFile) : r \in ImporterResults(s)}

StageInit ==
    /\ tool \in {"export", "import"}
    /\ pc \in (IF tool = "export" THEN Range(ExportStages) ELSE ImporterStages)
    /\ argv = [all |-> TRUE, datasets |-> FALSE, prompts |-> FALSE, traces |-> FALSE,
               annotations |-> FALSE, evaluations |-> FALSE, projects |-> FALSE,
               setup_annotations |-> FALSE,
               base_url |-> TRUE, api_key |-> TRUE, space_id |-> TRUE]
    /\ args = argv
    /\ inCall = TRUE
    /\ successful = <<>>
    /\ failed = <<>>
    /\ log = {}
    /\ events = <<Call(pc)>>
    /\ given \in Givens(tool, pc)
    /\ trace_file = given.file
    /\ exit_code = -1

StageNext ==
    \/ \E s \in Range(ExportStages) : ~given.raised /\ ExportReturnWith(s, given.result)
    \/ \E s \in Range(ExportStages) : given.raised /\ ExportRaise(s)
    \/ \E s \in ImporterStages \ {"traces"} :
          ~given.raised /\ ImportReturnWith(s, given.result)
    \/ \E s \in ImporterStages \ {"traces"} : given.raised /\ ImportRaise(s)
    \/ ~given.raised /\ ImportTracesReturnWith(given.result)
    \/ given.raised /\ ImportTracesRaiseWith(given.file)

StageSpec == StageInit /\ [][StageNext]_vars

----------------------------------------------------------------------------
(* Vocabulary of the properties, read off the history of the run *)

\* the configuration checks of main() passed: stages can run
ExportRan == tool = "export" /\ argv.base_url /\ ExportAnySelected(argv)
ImportRan ==
    tool = "import" /\ argv.api_key /\ argv.space_id /\ ImportAnySelected(argv)
CredentialMissing ==
    \/ tool = "export" /\ ~argv.base_url
    \/ tool = "import" /\ (~argv.api_key \/ ~argv.space_id)

\* the position of the first occurrence of e in s, 0 when absent
IndexOf(s, e) ==
    IF e \in Range(s) THEN CHOOSE i \in 1..Len(s) : s[i] = e /\ \A j \in 1..(i-1) : s[j] # e
    ELSE 0

Called(s) == Call(s) \in Range(events)
Finished(s) == Return(s) \in Range(events) \/ Raise(s) \in Range(events)

IsCall(e) == e[1] = "call"
IsImporterCall(e) == e[1] = "call" /\ e[2] # "annotation setup"

\* the stages called so far, in the order of their calls
StageOfCall(calls) == [i \in 1..Len(calls) |-> calls[i][2]]
CallOrder == StageOfCall(SelectSeq(events, IsCall))
ImporterCallOrder == StageOfCall(SelectSeq(events, IsImporterCall))

Position(e) == IndexOf(events, e)
FinishPosition(s) ==
    IF Return(s) \in Range(events) THEN Position(Return(s)) ELSE Position(Raise(s))

Yes == {"yes", "y"}
IngestionAnswers == {e[2] : e \in {x \in Range(events) : x[1] = "ingestion prompt"}}
AnnotationAnswers == {e[2] : e \in {x \in Range(events) : x[1] = "annotation prompt"}}
IngestionPrompted == IngestionAnswers # {}
IngestionDeclined == \E c \in IngestionAnswers : c \notin Yes
AnnotationPrompted == AnnotationAnswers # {}
AnnotationDeclined == \E c \in AnnotationAnswers : c \notin Yes

\* s without the elements of the set D
Without(s, D) == LET Keep(x) == x \notin D IN SelectSeq(s, Keep)

\* s is strictly increasing in the order given by the sequence order
Ascending(s, order) ==
    /\ \A i \in 1..Len(s) : s[i] \in Range(order)
    /\ \A i, j \in 1..Len(s) : i < j => IndexOf(order, s[i]) < IndexOf(order, s[j])

----------------------------------------------------------------------------
(* C1 *)

ImporterOrder == <<"datasets", "prompts", "traces", "evaluations", "annotations">>

\* C1: a finished run with --all (and valid configuration) has invoked every
\* stage in the fixed order, whatever the other flags; in the import pipeline
\* a stage is missing only if the operator declined that stage's own prompt.
C1_AllRunsEveryStage ==
    (pc = "done" /\ argv.all) =>
        /\ ExportRan => CallOrder = ExportStages
        /\ ImportRan =>
              ImporterCallOrder =
                  Without(ImporterOrder,
                          (IF IngestionDeclined THEN {"evaluations"} ELSE {})
                            \cup (IF AnnotationDeclined THEN {"annotations"} ELSE {}))

----------------------------------------------------------------------------
(* C2 *)

StageFlags == {"datasets", "prompts", "traces", "annotations", "evaluations", "projects"}
OnlyFlag(f) == \A g \in FlagNames : argv[g] <=> (g = f)
StageOfFlag(f) == IF f = "projects" THEN "traces" ELSE f

\* C2 as stated: a finished run (valid configuration) with a single entity
\* flag has invoked exactly that flag's exporter/importer and no other.
C2_OnlyThatStage_Original ==
    \A f \in StageFlags :
        (pc = "done" /\ (ExportRan \/ ImportRan) /\ OnlyFlag(f)) =>
            ImporterCallOrder = <<StageOfFlag(f)>>

\* C2 amended: with a single entity flag (valid configuration) no exporter or
\* importer of another stage is ever invoked, and the finished run has invoked
\* the flag's own exporter/importer exactly once; except that with only
\* --annotations the import tool first runs the setup guide and invokes the
\* annotations importer only if the operator confirms the annotation prompt.
C2_OnlyThatStage ==
    \A f \in StageFlags :
        ((ExportRan \/ ImportRan) /\ OnlyFlag(f)) =>
            /\ \A i \in 1..Len(ImporterCallOrder) : ImporterCallOrder[i] = StageOfFlag(f)
            /\ Called("annotation setup") => (tool = "import" /\ f = "annotations")
            /\ pc = "done" =>
                  IF tool = "import" /\ f = "annotations"
                  THEN /\ CallOrder[1] = "annotation setup"
                       /\ AnnotationPrompted
                       /\ ImporterCallOrder =
                             (IF AnnotationDeclined THEN <<>> ELSE <<"annotations">>)
                  ELSE CallOrder = <<StageOfFlag(f)>>

C2_Witness ==
    /\ pc = "done" /\ ImportRan /\ OnlyFlag("annotations")
    /\ AnnotationDeclined /\ CallOrder = <<"annotation setup">>

----------------------------------------------------------------------------
(* C3 *)

\* C3: in the export pipeline, a stage whose exporter raised is in the failed
\* list, every later requested stage is still invoked, and the run ends with
\* the summary (never in between).
C3_ExportRaiseTolerated ==
    tool = "export" =>
        \A i \in 1..Len(ExportStages) :
            Raise(ExportStages[i]) \in Range(events) =>
                /\ ExportStages[i] \in Range(failed)
                /\ ExportStages[i] \notin Range(successful)
                /\ pc # "done" => ENABLED Next
                /\ pc = "done" =>
                      /\ Summary \in Range(events)
                      /\ \A j \in (i+1)..Len(ExportStages) :
                            ExportRequested(argv, ExportStages[j]) =>
                                /\ Called(ExportStages[j])
                                /\ Position(Call(ExportStages[j])) >
                                       Position(Raise(ExportStages[i]))

C3_Witness ==
    /\ tool = "export" /\ pc = "done"
    /\ Raise("datasets") \in Range(events)
    /\ "prompts" \in Range(successful)
    /\ Called("evaluations")

----------------------------------------------------------------------------
(* C4 *)

RecordedFailed(s) == s \in Range(failed) /\ s \notin Range(successful)
RecordedSuccessful(s) == s \in Range(successful) /\ s \notin Range(failed)

\* the run went on after a raise: once finished it has printed the summary and
\* has invoked every later stage that was requested and not declined
ImportWentOn(s) ==
    pc = "done" =>
        /\ Summary \in Range(events)
        /\ \A t \in {"prompts", "traces"} :
              (IndexOf(ImporterOrder, s) < IndexOf(ImporterOrder, t)
                  /\ ImportRequested(argv, t)) => Called(t)
        /\ (s # "annotations" /\ s # "evaluations" /\ ImportRequested(argv, "evaluations")
               /\ ~IngestionDeclined) => Called("evaluations")
        /\ (s # "annotations" /\ ImportRequested(args, "annotations")
               /\ ~AnnotationDeclined) => Called("annotations")

\* C4 as stated: in the import pipeline a stage whose importer raised is in
\* the failed list and never in the successful list.
C4_ImportRaiseFails_Original ==
    tool = "import" =>
        \A s \in Range(ImporterOrder) :
            Raise(s) \in Range(events) => RecordedFailed(s)

\* C4 amended: when the importer of datasets, prompts, evaluations or
\* annotations raises, the stage is in the failed list and never in the
\* successful list; when the traces importer raises, the stage is in the failed
\* list unless the trace results file exists and loads and the loaded result
\* counts as a success, in which case it is in the successful list only.  In
\* every case the run goes on to the remaining stages and the summary.
C4_ImportRaiseFails ==
    tool = "import" =>
        \A s \in Range(ImporterOrder) :
            Raise(s) \in Range(events) =>
                /\ IF s = "traces" /\ trace_file.state = "json"
                        /\ \E e \in trace_file.content.dict :
                              e[1] \notin {"projects", "timestamp"} /\ e[2] \in {"imported", "skipped"}
                   THEN RecordedSuccessful(s)
                   ELSE RecordedFailed(s)
                /\ pc # "done" => ENABLED Next
                /\ ImportWentOn(s)

C4_Witness ==
    /\ tool = "import" /\ pc = "done"
    /\ Raise("traces") \in Range(events) /\ "traces" \in Range(successful)
    /\ Raise("datasets") \in Range(events) /\ "datasets" \in Range(failed)
    /\ Called("annotations")

----------------------------------------------------------------------------
(* C5 *)

StageNames == Range(ExportStages) \cup Range(ImportStages)

\* C5: the process exit code is non-zero (1) exactly when a stage is in the
\* failed list at the end of the run, and 0 otherwise; no exit code exists
\* before the run ends.
C5_ExitCodeIffFailed ==
    /\ pc # "done" => exit_code = -1
    /\ pc = "done" =>
          /\ exit_code \in {0, 1}
          /\ exit_code # 0 <=> (\E s \in StageNames : s \in Range(failed))
          /\ (\A s \in StageNames : s \notin Range(failed)) => exit_code = 0

C5_Witness ==
    /\ pc = "done" /\ exit_code = 1
    /\ failed = <<"prompts">>
    /\ Len(successful) >= 3

----------------------------------------------------------------------------
(* C6 *)

\* C6: a run with a missing credential logs an error, invokes no stage, and
\* ends with exit code 1.
C6_MissingCredentialExits1 ==
    (pc = "done" /\ CredentialMissing) =>
        /\ \E m \in log : m[1] = "error"
        /\ CallOrder = <<>>
        /\ exit_code = 1

----------------------------------------------------------------------------
(* C7 *)

\* C7: once the operator has declined the post-trace prompt, the evaluations
\* importer is not invoked in the run, the warning is in the log, and
\* "evaluations" is in neither list; a run whose only shortfall is the decline
\* exits 0.
C7_DeclineSkipsEvaluations ==
    (tool = "import" /\ IngestionDeclined) =>
        /\ ~Called("evaluations")
        /\ LogMsg("warning", "import skipped", "evaluations") \in log
        /\ "evaluations" \notin Range(failed)
        /\ "evaluations" \notin Range(successful)
        /\ (pc = "done" /\ failed = <<>>) => exit_code = 0

C7_Witness ==
    /\ tool = "import" /\ pc = "done" /\ IngestionDeclined
    /\ argv.all /\ argv.evaluations
    /\ exit_code = 0

----------------------------------------------------------------------------
(* C8 *)

PastPause ==
    pc \in {"evaluations", "annotation setup", "setup only", "confirm",
            "annotations", "summary"} \/ (pc = "done" /\ ImportRan)

\* C8: the ingestion prompt is issued exactly when the traces stage succeeded
\* in this run and evaluations are requested; after a prompt the evaluations
\* importer is invoked only on an answer of yes or y (in any letter case),
\* after the prompt, and always after the traces stage has finished.
C8_IngestionPrompt ==
    tool = "import" =>
        /\ IngestionPrompted =>
              /\ "traces" \in Range(successful)
              /\ argv.all \/ argv.evaluations
              /\ Cardinality({i \in 1..Len(events) : events[i][1] = "ingestion prompt"}) = 1
        /\ (PastPause /\ "traces" \in Range(successful) /\ (argv.all \/ argv.evaluations))
              => IngestionPrompted
        /\ (Called("evaluations") /\ IngestionPrompted) =>
              /\ IngestionAnswers \subseteq Yes
              /\ \E c \in Yes :
                    Position(IngestionPrompt(c)) < Position(Call("evaluations"))
        /\ (Called("evaluations") /\ Called("traces")) =>
              /\ Finished("traces")
              /\ FinishPosition("traces") < Position(Call("evaluations"))

C8_Witness ==
    /\ tool = "import" /\ pc = "done"
    /\ IngestionAnswers = {"yes"}
    /\ Called("evaluations")
    /\ ~argv.all

----------------------------------------------------------------------------
(* C9 *)

\* C9: the annotations importer is invoked only after the setup guide has run
\* in the same run and the operator has then answered yes or y to the
\* annotation prompt; after a decline it is not invoked and "annotations" is in
\* neither list.
C9_AnnotationGate ==
    tool = "import" =>
        /\ Called("annotations") =>
              /\ Finished("annotation setup")
              /\ AnnotationPrompted /\ AnnotationAnswers \subseteq Yes
              /\ \E c \in Yes :
                    /\ Position(Call("annotation setup")) < FinishPosition("annotation setup")
                    /\ FinishPosition("annotation setup") < Position(AnnotationPrompt(c))
                    /\ Position(AnnotationPrompt(c)) < Position(Call("annotations"))
        /\ AnnotationDeclined =>
              /\ ~Called("annotations")
              /\ "annotations" \notin Range(successful)
              /\ "annotations" \notin Range(failed)

C9_Witness ==
    /\ tool = "import" /\ pc = "done"
    /\ Raise("annotation setup") \in Range(events)
    /\ AnnotationAnswers = {"y"}
    /\ "annotations" \in Range(successful)

----------------------------------------------------------------------------
(* C10 *)

\* C10: for every flag combination the stages are called in an order that is a
\* subsequence of the fixed order of the tool, and a call is made only when
\* the call before it has returned or raised.
C10_FixedOrder ==
    /\ Ascending(CallOrder, IF tool = "export" THEN ExportStages ELSE ImportStages)
    /\ \A i \in 1..Len(events) :
          IsCall(events[i]) =>
              IF i = Len(events) THEN inCall
              ELSE events[i+1] \in {Return(events[i][2]), Raise(events[i][2])}
    /\ inCall => (events # <<>> /\ IsCall(events[Len(events)]))

C10_Witness ==
    /\ pc = "done"
    /\ \/ CallOrder = <<"prompts", "traces", "evaluations">> /\ tool = "export"
       \/ CallOrder = <<"datasets", "traces", "annotation setup", "annotations">>

----------------------------------------------------------------------------
(* Vocabulary of the properties of one stage on its own (StageSpec) *)

\* the stage has been recorded
StageDone == ~inCall
StageOf(s) == events[1] = Call(s)

----------------------------------------------------------------------------
(* C11 *)

\* C11: the datasets and prompts import stages succeed exactly when the
\* importer returns a non-empty list with at least one entry of status
\* imported or already_exists (so a list of already_exists only succeeds);
\* an empty list, a result that is no list, and a list of other statuses fail.
C11_ListStageSuccess ==
    \A s \in {"datasets", "prompts"} :
        (tool = "import" /\ StageOf(s) /\ StageDone /\ ~given.raised) =>
            LET r == given.result
                good == /\ r.kind = "list"
                        /\ \E i \in 1..Len(r.list) :
                              r.list[i] \in {"imported", "already_exists"}
            IN  /\ s \in Range(successful) <=> good
                /\ s \in Range(failed) <=> ~good
                /\ Len(successful) + Len(failed) = 1

C11_Witness ==
    /\ tool = "import" /\ StageOf("prompts") /\ StageDone
    /\ given = Given(FALSE, ListResult(<<"already_exists", "already_exists">>), AbsentFile)
    /\ successful = <<"prompts">>

----------------------------------------------------------------------------
(* C12 *)

CallCount(s) == Cardinality({i \in 1..Len(events) : events[i] = Call(s)})

\* C12: within one run each stage's exporter/importer (and the setup guide)
\* is called at most once, also when it raised or was recorded as failed.
C12_AtMostOnce ==
    \A s \in StageNames :
        /\ CallCount(s) <= 1
        /\ Cardinality({i \in 1..Len(events) :
                            events[i] \in {Return(s), Raise(s)}}) <= CallCount(s)

C12_Witness ==
    /\ pc = "done"
    /\ failed = <<"datasets", "prompts", "traces">>
    /\ Raise("prompts") \in Range(events)
    /\ CallCount("datasets") = 1 /\ CallCount("prompts") = 1 /\ CallCount("traces") = 1

----------------------------------------------------------------------------
(* C13 *)

\* C13: a decline of the post-trace prompt affects the evaluations stage
\* only: the finished run has invoked every other stage exactly as the run
\* that accepts does, that is as the command line asks; in particular the
\* setup guide, the annotation prompt and (on yes) the annotations importer
\* happen whenever --all or --annotations was given.
C13_DeclineOnlySkipsEvaluations ==
    (tool = "import" /\ pc = "done" /\ IngestionDeclined) =>
        /\ \A t \in {"datasets", "prompts", "traces"} :
              Called(t) <=> (argv.all \/ argv[t])
        /\ (argv.all \/ argv.annotations) =>
              /\ Called("annotation setup")
              /\ AnnotationPrompted
              /\ ~AnnotationDeclined => Called("annotations")
        /\ ~(argv.all \/ argv.annotations) =>
              /\ ~AnnotationPrompted
              /\ ~Called("annotations")
              /\ Called("annotation setup") <=> argv.setup_annotations

----------------------------------------------------------------------------
(* C14, C16, C19: one stage on its own, under StageSpec *)

\* A traces result that makes the stage succeed, in the claims' words: a dict
\* with an entry, outside the keys 'projects' and 'timestamp', that is a dict
\* whose status is 'imported' or 'skipped'.
TraceGood(r) ==
    /\ r.kind = "dict"
    /\ \E e \in r.dict : /\ e[1] # "projects" /\ e[1] # "timestamp"
                         /\ e[2] # NotADict
                         /\ (e[2] = "imported" \/ e[2] = "skipped")
NonEmptyDict(r) == r.kind = "dict" /\ r.dict # {}
TracesOutcomeFrom(r) ==
    /\ "traces" \in Range(successful) <=> TraceGood(r)
    /\ "traces" \in Range(failed) <=> ~TraceGood(r)
    /\ Len(successful) + Len(failed) = 1

\* C14: when the traces importer raises and the results file loads as JSON,
\* the stage's outcome is the one the loaded result gives as a returned result
\* would (successful included); when the file is absent or does not load, the
\* stage failed and the file is as the importer left it.
C14_RaiseRecovery ==
    (tool = "import" /\ StageOf("traces") /\ StageDone /\ given.raised) =>
        IF given.file.state = "json"
        THEN /\ TracesOutcomeFrom(given.file.content)
             /\ trace_file = given.file
        ELSE /\ failed = <<"traces">> /\ successful = <<>>
             /\ trace_file = given.file

C14_Witness ==
    /\ tool = "import" /\ StageOf("traces") /\ StageDone
    /\ given = Given(TRUE, NoneResult, JsonFile(DictResult({<<"p1", "skipped">>})))
    /\ successful = <<"traces">> /\ failed = <<>>
    /\ Raise("traces") \in Range(events)

\* C16: an export stage is recorded as failed iff its exporter raised or
\* returned an empty result; any non-empty result records it as successful,
\* whatever the statuses of its entities.
C16_ExportStageFailure ==
    \A s \in Range(ExportStages) :
        (tool = "export" /\ StageOf(s) /\ StageDone) =>
            LET empty == given.result.kind = "none" \/ Len(given.result.list) = 0
                bad == given.raised \/ empty
            IN  /\ s \in Range(failed) <=> bad
                /\ s \in Range(successful) <=> ~bad
                /\ Len(successful) + Len(failed) = 1

C16_Witness ==
    /\ tool = "export" /\ StageOf("traces") /\ StageDone
    /\ given = Given(FALSE, ListResult(<<"failed", "">>), AbsentFile)
    /\ successful = <<"traces">> /\ failed = <<>>

\* C19: for a result the traces importer returns, the stage succeeds iff the
\* result is a non-empty dict with a dict entry of status 'imported' or
\* 'skipped' outside the keys 'projects' and 'timestamp'; the results file
\* holds the result whenever it is a non-empty dict, also on failure, and is
\* untouched otherwise.
C19_TraceStageSuccess ==
    (tool = "import" /\ StageOf("traces") /\ StageDone /\ ~given.raised) =>
        /\ TracesOutcomeFrom(given.result)
        /\ trace_file = IF NonEmptyDict(given.result) THEN JsonFile(given.result)
                        ELSE given.file

C19_Witness ==
    /\ tool = "import" /\ StageOf("traces") /\ StageDone
    /\ given = Given(FALSE, DictResult({<<"p1", "failed">>, <<"p2", NotADict>>,
                                       <<"projects", "imported">>}), AbsentFile)
    /\ failed = <<"traces">> /\ successful = <<>>
    /\ trace_file = JsonFile(given.result)

----------------------------------------------------------------------------
(* C15, C17, C18: whole runs, under Spec *)

NoDuplicates(l) == Cardinality(Range(l)) = Len(l)
Recorded(s) == s \in Range(successful) \cup Range(failed)
ToolStages == IF tool = "export" THEN Range(ExportStages) ELSE ImporterStages

\* C15: in every state the successful and the failed list are disjoint and
\* hold no name twice; at the summary every stage whose exporter / importer
\* was invoked is in exactly one list, and nothing that was never invoked is
\* in either (the setup guide, which is no importer, included).
C15_ListsPartition ==
    /\ Range(successful) \cap Range(failed) = {}
    /\ NoDuplicates(successful) /\ NoDuplicates(failed)
    /\ pc \in {"summary", "done"} =>
          /\ \A s \in ToolStages : Called(s) <=> Recorded(s)
          /\ \A s \in StageNames : Recorded(s) => Called(s)
          /\ Range(successful) \cup Range(failed) \subseteq StageNames

C15_Witness ==
    /\ tool = "import" /\ pc = "done"
    /\ successful = <<"datasets", "annotations">>
    /\ failed = <<"prompts", "annotation setup">>
    /\ ~Called("traces") /\ ~Called("evaluations")

\* C17: with annotations requested (--all or --annotations), a failed setup
\* guide is recorded as 'annotation setup' in the failed list and the stage
\* goes on: the annotation prompt is issued, on yes the importer is invoked,
\* and the run exits 1; a successful setup guide is in the successful list
\* only with --setup-annotations and no annotations requested.
C17_SetupFailureGoesOn ==
    (tool = "import" /\ pc = "done" /\ ImportRan) =>
        LET requested == argv.all \/ argv.annotations IN
        /\ (requested /\ Raise("annotation setup") \in Range(events)) =>
              /\ "annotation setup" \in Range(failed)
              /\ AnnotationPrompted
              /\ ~AnnotationDeclined => Called("annotations")
              /\ exit_code = 1
        /\ "annotation setup" \in Range(successful) =>
              argv.setup_annotations /\ ~requested

\* C18: when evaluations are requested and the traces stage has not
\* succeeded in this run, no ingestion prompt is issued, and past step 4 the
\* evaluations importer has been invoked.
C18_NoPromptWithoutTraces ==
    (tool = "import" /\ ImportRan /\ (argv.all \/ argv.evaluations)
        /\ "traces" \notin Range(successful)) =>
        /\ ~IngestionPrompted
        /\ pc \in {"annotation setup", "setup only", "confirm", "annotations",
                   "summary", "done"} => Called("evaluations")
        /\ pc = "evaluations" => args = argv

C18_Witness ==
    /\ tool = "import" /\ pc = "done"
    /\ argv.evaluations /\ argv.traces /\ ~argv.all
    /\ "traces" \in Range(failed)
    /\ ~IngestionPrompted
    /\ Called("evaluations")

====
